---- MODULE Spec2Model ----
(***************************************************************************)
(* Model of dashboard.py: the Sleep & Lifestyle Analytics Dashboard.       *)
(*                                                                         *)
(* The module-level code loads a CSV into the table df, builds the filter  *)
(* controls from it and registers one callback, update_dashboard, that     *)
(* filters df and recomputes four statistic cards and four figures.        *)
(*                                                                         *)
(* Numbers: a float is a record [nan, tenths]; Sleep Duration is kept in   *)
(* tenths of an hour and every modelled duration is a multiple of 0.5, so  *)
(* sums of durations are exact in binary floating point.                   *)
(***************************************************************************)
EXTENDS Integers, Sequences, FiniteSets, TLC

\* Longest dataset (number of CSV rows) explored.
MaxRows == 2

\* step=0.5 of the RangeSlider, in tenths of an hour.
SliderStep == 5

\* Worker threads of the hosting server that may run update_dashboard.
Threads == {"t1", "t2"}

-----------------------------------------------------------------------------
(* Floats *)

Float(t) == [nan |-> FALSE, tenths |-> t]
NaN == [nan |-> TRUE, tenths |-> 0]

\* IEEE comparisons: every comparison with NaN is false.
Ge(a, b) == ~a.nan /\ ~b.nan /\ a.tenths >= b.tenths
Le(a, b) == ~a.nan /\ ~b.nan /\ a.tenths <= b.tenths

-----------------------------------------------------------------------------
(* The CSV file *)

DurValues == {Float(65), Float(80)}
StressValues == {2, 5}
ActivityValues == {"Low", "High"}

\* Quality of Sleep is not filtered on; the rows explored pair it with the
\* stress level as the scenarios' two rows do (stress 5: 7, stress 2: 9).
QualityFor(s) == IF s = 5 THEN 7 ELSE 9

\* Rows with every combination of duration, stress and activity, and two
\* rows whose Sleep Duration cell is empty.
RowValues ==
  {[dur |-> d, quality |-> QualityFor(s), stress |-> s, activity |-> a] :
     d \in DurValues, s \in StressValues, a \in ActivityValues}
  \cup {[dur |-> NaN, quality |-> 7, stress |-> 5, activity |-> "Low"],
        [dur |-> NaN, quality |-> 9, stress |-> 2, activity |-> "High"]}

Datasets == UNION {[1..n -> RowValues] : n \in 0..MaxRows}

\* The two-row dataset of the specification's scenarios.
ScenarioRows ==
  << [dur |-> Float(65), quality |-> 7, stress |-> 5, activity |-> "Low"],
     [dur |-> Float(80), quality |-> 9, stress |-> 2, activity |-> "High"] >>

RequiredColumns ==
  {"Sleep Duration", "Quality of Sleep", "Stress Level", "Physical Activity Level"}

\* Header rows: the exact names, one name padded with blanks, one name missing.
PaddedHeader ==
  {"Sleep Duration", "Quality of Sleep", " Stress Level ", "Physical Activity Level"}
Headers ==
  {RequiredColumns, PaddedHeader} \cup {RequiredColumns \ {c} : c \in RequiredColumns}

Files ==
  {[exists |-> FALSE, header |-> {}, rows |-> << >>]}
  \cup {[exists |-> TRUE, header |-> RequiredColumns, rows |-> r] : r \in Datasets}
  \cup {[exists |-> TRUE, header |-> h, rows |-> ScenarioRows] :
          h \in Headers \ {RequiredColumns}}

-----------------------------------------------------------------------------
VARIABLES
  file,           \* Sleep_health_and_lifestyle_dataset.csv on disk
  pc,             \* "start", "loaded", "serving" or "aborted"
  startupError,   \* the exception that aborted the module-level code, or ""
  df,             \* the module-level table: [cols, rows]
  layout,         \* the filter controls built from df: slider bounds, options
  controls,       \* the browser's current control values (the FilterState)
  filtered,       \* the frame filter_dataframe returned to the last callback
  display,        \* << >> or <<the eight outputs last rendered>>
  callbackResult, \* "none", "ok" or the exception of the last callback
  locals,         \* per thread: << >> (idle) or <<the local `filtered`>>
  firstDisplay,   \* history: the outputs of the first callback that returned
  visited         \* history: some callback ran on non-initial control values

vars ==
  <<file, pc, startupError, df, layout, controls, filtered, display,
    callbackResult, locals, firstDisplay, visited>>

-----------------------------------------------------------------------------
(* pandas helpers *)

\* str.strip() of a column name.
strip(h) == IF h = " Stress Level " THEN "Stress Level" ELSE h

\* pd.read_csv, columns.str.strip(), and the 'Sample ID' column 1..len(df).
read_csv(f) ==
  [cols |-> {strip(h) : h \in f.header} \cup {"Sample ID"},
   rows |-> [i \in 1..Len(f.rows) |->
               [id |-> i, dur |-> f.rows[i].dur, quality |-> f.rows[i].quality,
                stress |-> f.rows[i].stress, activity |-> f.rows[i].activity]]]

\* The non-NaN values of a float series, as a set of tenths.
Present(rows) == {rows[i].dur.tenths : i \in {j \in 1..Len(rows) : ~rows[j].dur.nan}}

SetMin(S) == CHOOSE x \in S : \A y \in S : x <= y
SetMax(S) == CHOOSE x \in S : \A y \in S : x >= y

\* Series.min() / Series.max(): NaN is skipped; NaN when nothing is left.
series_min(rows) == IF Present(rows) = {} THEN NaN ELSE Float(SetMin(Present(rows)))
series_max(rows) == IF Present(rows) = {} THEN NaN ELSE Float(SetMax(Present(rows)))

-----------------------------------------------------------------------------
(* Filter controls *)

\* A multi-select Dropdown value: None (never touched) or a list of options.
NoneSel == [none |-> TRUE, vals |-> {}]
ListSel(S) == [none |-> FALSE, vals |-> S]

\* Python truthiness of `stress and len(stress) > 0`.
Selected(sel) == ~sel.none /\ sel.vals # {}

NoLayout ==
  [sleep_min |-> NaN, sleep_max |-> NaN, sleep_value |-> << >>,
   stress_options |-> {}, activity_options |-> {}]

NoControls == [sleep |-> << >>, stress |-> NoneSel, activity |-> NoneSel]

\* The `filters` card: RangeSlider 'sleep-filter' and the two Dropdowns.
filters(d) ==
  [sleep_min |-> series_min(d.rows),
   sleep_max |-> series_max(d.rows),
   sleep_value |-> <<series_min(d.rows), series_max(d.rows)>>,
   stress_options |-> {d.rows[i].stress : i \in 1..Len(d.rows)},
   activity_options |-> {d.rows[i].activity : i \in 1..Len(d.rows)}]

\* The exception the module-level layout code raises on d, or "".
filters_raises(d) ==
  IF "Sleep Duration" \notin d.cols THEN "KeyError"
  ELSE IF series_min(d.rows).nan THEN "ValueError"
  ELSE IF "Stress Level" \notin d.cols THEN "KeyError"
  ELSE IF "Physical Activity Level" \notin d.cols THEN "KeyError"
  ELSE ""

\* Control values of a freshly loaded page.
InitialControls(l) ==
  [sleep |-> l.sleep_value, stress |-> NoneSel, activity |-> NoneSel]

\* Positions of the slider handles: min, min + step, ... up to max.
Grid(l) ==
  {t \in l.sleep_min.tenths..l.sleep_max.tenths :
     (t - l.sleep_min.tenths) % SliderStep = 0}

\* Every FilterState the controls can hold.
FilterStates(l) ==
  {[sleep |-> <<Float(p[1]), Float(p[2])>>, stress |-> s, activity |-> a] :
     p \in {q \in Grid(l) \X Grid(l) : q[1] <= q[2]},
     s \in {NoneSel} \cup {ListSel(S) : S \in SUBSET l.stress_options},
     a \in {NoneSel} \cup {ListSel(S) : S \in SUBSET l.activity_options}}

-----------------------------------------------------------------------------
(* Helper functions *)

\* Variants of filter_dataframe with one slip each.
\* `if stress is not None:` in place of `if stress and len(stress) > 0:`.
filter_dataframe_empty_matches_nothing(d, sleep_range, stress, activity) ==
  LET InRange(r) == Ge(r.dur, sleep_range[1]) /\ Le(r.dur, sleep_range[2])
      InStress(r) == r.stress \in stress.vals
      InActivity(r) == r.activity \in activity.vals
      f1 == IF Len(sleep_range) > 0 THEN SelectSeq(d.rows, InRange) ELSE d.rows
      f2 == IF ~stress.none THEN SelectSeq(f1, InStress) ELSE f1
      f3 == IF ~activity.none THEN SelectSeq(f2, InActivity) ELSE f2
  IN [source |-> d, result |-> [cols |-> d.cols, rows |-> f3]]

\* `~isin(stress)` in place of `isin(stress)`.
filter_dataframe_not_in(d, sleep_range, stress, activity) ==
  LET InRange(r) == Ge(r.dur, sleep_range[1]) /\ Le(r.dur, sleep_range[2])
      NotInStress(r) == r.stress \notin stress.vals
      InActivity(r) == r.activity \in activity.vals
      f1 == IF Len(sleep_range) > 0 THEN SelectSeq(d.rows, InRange) ELSE d.rows
      f2 == IF Selected(stress) THEN SelectSeq(f1, NotInStress) ELSE f1
      f3 == IF Selected(activity) THEN SelectSeq(f2, InActivity) ELSE f2
  IN [source |-> d, result |-> [cols |-> d.cols, rows |-> f3]]

\* The result sorted by descending index.
filter_dataframe_reversed(d, sleep_range, stress, activity) ==
  LET InRange(r) == Ge(r.dur, sleep_range[1]) /\ Le(r.dur, sleep_range[2])
      InStress(r) == r.stress \in stress.vals
      InActivity(r) == r.activity \in activity.vals
      f1 == IF Len(sleep_range) > 0 THEN SelectSeq(d.rows, InRange) ELSE d.rows
      f2 == IF Selected(stress) THEN SelectSeq(f1, InStress) ELSE f1
      f3 == IF Selected(activity) THEN SelectSeq(f2, InActivity) ELSE f2
  IN [source |-> d,
      result |-> [cols |-> d.cols, rows |-> [i \in 1..Len(f3) |-> f3[Len(f3) + 1 - i]]]]

\* Rows dropped in place from the argument (no df.copy()).
filter_dataframe_inplace(d, sleep_range, stress, activity) ==
  LET InRange(r) == Ge(r.dur, sleep_range[1]) /\ Le(r.dur, sleep_range[2])
      InStress(r) == r.stress \in stress.vals
      InActivity(r) == r.activity \in activity.vals
      f1 == IF Len(sleep_range) > 0 THEN SelectSeq(d.rows, InRange) ELSE d.rows
      f2 == IF Selected(stress) THEN SelectSeq(f1, InStress) ELSE f1
      f3 == IF Selected(activity) THEN SelectSeq(f2, InActivity) ELSE f2
  IN [source |-> [cols |-> d.cols, rows |-> f3],
      result |-> [cols |-> d.cols, rows |-> f3]]

\* filter_dataframe: [source |-> the argument table after the call,
\*                    result |-> the returned frame].
filter_dataframe(d, sleep_range, stress, activity) ==
  LET InRange(r) == Ge(r.dur, sleep_range[1]) /\ Le(r.dur, sleep_range[2])
      InStress(r) == r.stress \in stress.vals
      InActivity(r) == r.activity \in activity.vals
      f0 == d.rows
      f1 == IF Len(sleep_range) > 0 THEN SelectSeq(f0, InRange) ELSE f0
      f2 == IF Selected(stress) THEN SelectSeq(f1, InStress) ELSE f1
      f3 == IF Selected(activity) THEN SelectSeq(f2, InActivity) ELSE f2
  IN [source |-> d, result |-> [cols |-> d.cols, rows |-> f3]]

-----------------------------------------------------------------------------
(* Statistics *)

RECURSIVE SumTenths(_)
SumTenths(s) ==
  IF s = << >> THEN 0 ELSE (IF Head(s).nan THEN 0 ELSE Head(s).tenths) + SumTenths(Tail(s))

NotNaN(x) == ~x.nan

\* Series.mean(): NaN is skipped; the mean of nothing is NaN.  A rational num/den.
series_mean(s) ==
  LET n == Len(SelectSeq(s, NotNaN))
  IN IF n = 0 THEN [nan |-> TRUE, num |-> 0, den |-> 1]
     ELSE [nan |-> FALSE, num |-> SumTenths(s), den |-> n]

\* num/den (num >= 0) rounded to an integer, ties to the even neighbour.
RoundHalfEven(num, den) ==
  LET q == num \div den
      r == num % den
  IN IF 2 * r < den THEN q
     ELSE IF 2 * r > den THEN q + 1
     ELSE IF q % 2 = 0 THEN q ELSE q + 1

\* f"{m:.1f}<suffix>": the decimal nearest to the double, ties to even; NaN
\* prints as "nan".  The double of a mean of fewer than ten values that are
\* multiples of 0.5 is a tie only when the mean is x.25 or x.75, which is exact
\* in binary, so rounding the rational num/den gives the digit Python prints.
format_1f(m, suffix) ==
  IF m.nan THEN [text |-> "nan", tenths |-> 0, suffix |-> suffix]
  ELSE [text |-> "fixed", tenths |-> RoundHalfEven(m.num, m.den), suffix |-> suffix]

\* Columns of a frame as float series.
SleepDuration(rows) == [i \in 1..Len(rows) |-> rows[i].dur]
QualityOfSleep(rows) == [i \in 1..Len(rows) |-> Float(10 * rows[i].quality)]
StressLevel(rows) == [i \in 1..Len(rows) |-> Float(10 * rows[i].stress)]
ActivityLevel(rows) == [i \in 1..Len(rows) |-> rows[i].activity]

\* "Calculate statistics": the four card values of a frame.
statistics(f) ==
  [total_samples |-> Len(f.rows),
   avg_sleep |-> format_1f(series_mean(SleepDuration(f.rows)), "h"),
   avg_quality |-> format_1f(series_mean(QualityOfSleep(f.rows)), "/10"),
   avg_stress |-> format_1f(series_mean(StressLevel(f.rows)), "/10")]

\* Variant of figures: the density heatmap is drawn from the global df.
figures_from_global(f) ==
  [fig1 |-> [kind |-> "histogram", x |-> SleepDuration(f.rows)],
   fig2 |-> [kind |-> "scatter", x |-> SleepDuration(f.rows),
             y |-> QualityOfSleep(f.rows), color |-> StressLevel(f.rows),
             size |-> StressLevel(f.rows), hover |-> ActivityLevel(f.rows)],
   fig3 |-> [kind |-> "box", x |-> ActivityLevel(f.rows), y |-> SleepDuration(f.rows)],
   fig4 |-> [kind |-> "density_heatmap", x |-> SleepDuration(df.rows),
             y |-> QualityOfSleep(df.rows)]]

\* The data each of the four figures is built from.
figures(f) ==
  [fig1 |-> [kind |-> "histogram", x |-> SleepDuration(f.rows)],
   fig2 |-> [kind |-> "scatter", x |-> SleepDuration(f.rows),
             y |-> QualityOfSleep(f.rows), color |-> StressLevel(f.rows),
             size |-> StressLevel(f.rows), hover |-> ActivityLevel(f.rows)],
   fig3 |-> [kind |-> "box", x |-> ActivityLevel(f.rows), y |-> SleepDuration(f.rows)],
   fig4 |-> [kind |-> "density_heatmap", x |-> SleepDuration(f.rows),
             y |-> QualityOfSleep(f.rows)]]

\* update_dashboard after the filter call: the statistics, the figures and the
\* returned tuple, or the KeyError of a column the frame does not have.
render(f) ==
  IF "Quality of Sleep" \notin f.cols
  THEN [raised |-> "KeyError", outputs |-> << >>]
  ELSE [raised |-> "",
        outputs |-> << [stats |-> statistics(f), figs |-> figures(f)] >>]

\* Variant of update_dashboard: `global df; df = filter_dataframe(df, ...)`.
update_dashboard_rebinds_df(d, sleep_range, selected_stress, selected_activity) ==
  LET r == filter_dataframe(d, sleep_range, selected_stress, selected_activity)
      o == render(r.result)
  IN [source |-> r.result, filtered |-> r.result,
      raised |-> o.raised, outputs |-> o.outputs]

\* update_dashboard, whole.
update_dashboard(d, sleep_range, selected_stress, selected_activity) ==
  LET r == filter_dataframe(d, sleep_range, selected_stress, selected_activity)
      o == render(r.result)
  IN [source |-> r.source, filtered |-> r.result,
      raised |-> o.raised, outputs |-> o.outputs]

-----------------------------------------------------------------------------
(* Startup: the module-level code *)

Init ==
  /\ file \in Files
  /\ pc = "start"
  /\ startupError = ""
  /\ df = [cols |-> {}, rows |-> << >>]
  /\ layout = NoLayout
  /\ controls = NoControls
  /\ filtered = [cols |-> {}, rows |-> << >>]
  /\ display = << >>
  /\ callbackResult = "none"
  /\ locals = [t \in Threads |-> << >>]
  /\ firstDisplay = << >>
  /\ visited = FALSE

\* Lines 12-14: read the CSV, strip the column names, number the rows.
Load ==
  /\ pc = "start"
  /\ IF file.exists
     THEN /\ df' = read_csv(file)
          /\ pc' = "loaded"
          /\ UNCHANGED startupError
     ELSE /\ pc' = "aborted"
          /\ startupError' = "FileNotFoundError"
          /\ UNCHANGED df
  /\ UNCHANGED <<file, layout, controls, filtered, display, callbackResult, locals,
                 firstDisplay, visited>>

\* Lines 19-176: build the layout; the controls read three columns of df.
BuildLayout ==
  /\ pc = "loaded"
  /\ IF filters_raises(df) = ""
     THEN /\ layout' = filters(df)
          /\ pc' = "serving"
          /\ UNCHANGED startupError
     ELSE /\ pc' = "aborted"
          /\ startupError' = filters_raises(df)
          /\ UNCHANGED layout
  /\ UNCHANGED <<file, df, controls, filtered, display, callbackResult, locals,
                 firstDisplay, visited>>

-----------------------------------------------------------------------------
(* The callback, one synchronous recomputation per event *)

\* Dash calls update_dashboard with the values of all three Inputs and, when
\* it returns, renders the eight Outputs together; an exception renders none.
Callback(F) ==
  \E r \in {update_dashboard(df, F.sleep, F.stress, F.activity)} :
     /\ df' = r.source
     /\ filtered' = r.filtered
     /\ display' = IF r.raised = "" THEN r.outputs ELSE display
     /\ callbackResult' = IF r.raised = "" THEN "ok" ELSE r.raised
     /\ firstDisplay' = IF firstDisplay = << >> THEN r.outputs ELSE firstDisplay
     /\ visited' = (visited \/ F # InitialControls(layout))

\* A browser loads the page: the controls hold their initial values and the
\* callback fires once.
PageLoad ==
  /\ pc = "serving"
  /\ controls' = InitialControls(layout)
  /\ Callback(controls')
  /\ UNCHANGED <<file, pc, startupError, layout, locals>>

\* One handle of the RangeSlider is moved.
ChangeSleep ==
  /\ pc = "serving"
  /\ controls # NoControls
  /\ \E v \in Grid(layout) :
       \/ /\ v # controls.sleep[1].tenths
          /\ v <= controls.sleep[2].tenths
          /\ controls' = [controls EXCEPT !.sleep = <<Float(v), controls.sleep[2]>>]
       \/ /\ v # controls.sleep[2].tenths
          /\ v >= controls.sleep[1].tenths
          /\ controls' = [controls EXCEPT !.sleep = <<controls.sleep[1], Float(v)>>]
  /\ Callback(controls')
  /\ UNCHANGED <<file, pc, startupError, layout, locals>>

\* The values a multi-select Dropdown can change to: one option added, one
\* removed, or all cleared.
DropdownChanges(sel, options) ==
  ({sel.vals \cup {o} : o \in options} \cup {sel.vals \ {o} : o \in sel.vals} \cup {{}})
  \ {sel.vals}

ChangeStress ==
  /\ pc = "serving"
  /\ controls # NoControls
  /\ \E S \in DropdownChanges(controls.stress, layout.stress_options) :
       controls' = [controls EXCEPT !.stress = ListSel(S)]
  /\ Callback(controls')
  /\ UNCHANGED <<file, pc, startupError, layout, locals>>

ChangeActivity ==
  /\ pc = "serving"
  /\ controls # NoControls
  /\ \E S \in DropdownChanges(controls.activity, layout.activity_options) :
       controls' = [controls EXCEPT !.activity = ListSel(S)]
  /\ Callback(controls')
  /\ UNCHANGED <<file, pc, startupError, layout, locals>>

-----------------------------------------------------------------------------
(* The callback on the threads of the hosting server: invocations overlap *)

\* A thread enters update_dashboard with some client's control values and
\* runs the filter call (lines 232-237).
CallFilter(t) ==
  /\ pc = "serving"
  /\ locals[t] = << >>
  /\ \E r \in {filter_dataframe(df, F.sleep, F.stress, F.activity) :
                  F \in FilterStates(layout)} :
       /\ df' = r.source
       /\ locals' = [locals EXCEPT ![t] = <<r.result>>]
  /\ UNCHANGED <<file, pc, startupError, layout, controls, filtered, display,
                 callbackResult, firstDisplay, visited>>

\* The thread computes the statistics and the figures from its local frame
\* and returns (lines 239-313); the client renders the response.
Finish(t) ==
  /\ pc = "serving"
  /\ locals[t] # << >>
  /\ \E o \in {render(locals[t][1])} :
       /\ display' = IF o.raised = "" THEN o.outputs ELSE display
       /\ callbackResult' = IF o.raised = "" THEN "ok" ELSE o.raised
  /\ filtered' = locals[t][1]
  /\ locals' = [locals EXCEPT ![t] = << >>]
  /\ UNCHANGED <<file, pc, startupError, df, layout, controls, firstDisplay, visited>>

NextOverlap ==
  \/ Load
  \/ BuildLayout
  \/ \E t \in Threads : CallFilter(t)
  \/ \E t \in Threads : Finish(t)

SpecOverlap == Init /\ [][NextOverlap]_vars

Next ==
  \/ Load
  \/ BuildLayout
  \/ PageLoad
  \/ ChangeSleep
  \/ ChangeStress
  \/ ChangeActivity

Spec == Init /\ [][Next]_vars

-----------------------------------------------------------------------------
(* Properties *)

Responded == callbackResult # "none"
Shown == display[1]

\* The FilterState of the initial control values.
IsInitial(F) ==
  /\ F.sleep = <<series_min(df.rows), series_max(df.rows)>>
  /\ F.stress.vals = {}
  /\ F.activity.vals = {}

\* The row predicate of the filter: closed range and two optional memberships.
Passes(r, F) ==
  /\ ~r.dur.nan
  /\ F.sleep[1].tenths <= r.dur.tenths
  /\ r.dur.tenths <= F.sleep[2].tenths
  /\ (F.stress.none \/ F.stress.vals = {} \/ r.stress \in F.stress.vals)
  /\ (F.activity.none \/ F.activity.vals = {} \/ r.activity \in F.activity.vals)

\* C1: after every callback, a row of df is in the filtered frame exactly when
\* its Sleep Duration is in [min, max] and each categorical selection is empty,
\* absent, or contains the row's value.
C1_KeptIffPasses ==
  Responded =>
    \A i \in 1..Len(df.rows) :
      (\E j \in 1..Len(filtered.rows) : filtered.rows[j] = df.rows[i])
        <=> Passes(df.rows[i], controls)

\* A cleared stress selection beside an active activity selection that keeps
\* one row and drops another.
C1_Witness ==
  /\ callbackResult = "ok"
  /\ controls.stress = ListSel({})
  /\ Selected(controls.activity)
  /\ Len(filtered.rows) = 1
  /\ Len(df.rows) = 2

IsSentinel(m) == m.text = "N/A"

\* C2: when no row passes, the cards show count 0 and a sentinel such as "N/A"
\* for each of the three means, never a NaN.
C2_EmptyShowsSentinel ==
  (callbackResult = "ok" /\ Len(filtered.rows) = 0) =>
    /\ Shown.stats.total_samples = 0
    /\ IsSentinel(Shown.stats.avg_sleep)
    /\ IsSentinel(Shown.stats.avg_quality)
    /\ IsSentinel(Shown.stats.avg_stress)

RowsFor(G) == filter_dataframe(df, G.sleep, G.stress, G.activity).result.rows

\* The ranges inside the range of F: min raised, max lowered, or both kept.
RangesWithin(F) ==
  {<<Float(p[1]), Float(p[2])>> :
     p \in {q \in Grid(layout) \X Grid(layout) :
              F.sleep[1].tenths <= q[1] /\ q[1] <= q[2] /\ q[2] <= F.sleep[2].tenths}}

\* A selection with values removed from its set, possibly all of them.
Shrunk(a) == {a} \cup (IF a.none THEN {} ELSE {ListSel(S) : S \in SUBSET a.vals})

\* A selection with values removed from its set, which stays non-empty.
ShrunkNonEmpty(a) ==
  {a} \cup (IF a.none THEN {} ELSE {ListSel(S) : S \in (SUBSET a.vals) \ {{}}})

\* C3 as stated: every FilterState narrower than the current one, removal of a
\* selection's last value included, yields no more rows than the current one.
C3_NarrowingNeverIncreases ==
  Responded =>
    \A r \in RangesWithin(controls) :
      \A s \in Shrunk(controls.stress) : \A a \in Shrunk(controls.activity) :
        Len(RowsFor([sleep |-> r, stress |-> s, activity |-> a])) <= Len(filtered.rows)

\* C3 amended: every FilterState narrower than the current one, whose shrunk
\* selections are still non-empty, yields no more rows than the current one.
C3_NarrowingKeepingSelections ==
  Responded =>
    \A r \in RangesWithin(controls) :
      \A s \in ShrunkNonEmpty(controls.stress) :
        \A a \in ShrunkNonEmpty(controls.activity) :
          Len(RowsFor([sleep |-> r, stress |-> s, activity |-> a])) <= Len(filtered.rows)

\* Two stress levels are selected and both rows are shown; the range and the
\* stress selection can each be narrowed to drop a row.
C3_Witness ==
  /\ callbackResult = "ok"
  /\ controls.stress = ListSel({2, 5})
  /\ Len(filtered.rows) = 2
  /\ \E r \in RangesWithin(controls) \ {controls.sleep} :
       Len(RowsFor([sleep |-> r, stress |-> ListSel({2}),
                    activity |-> controls.activity])) < Len(filtered.rows)

\* C4: the application serves only when the file exists and has the four
\* required columns, and no callback of a serving application fails on a
\* missing column.
C4_ServingImpliesRequiredColumns ==
  /\ pc = "serving" => (file.exists /\ RequiredColumns \subseteq df.cols)
  /\ ~(pc = "serving" /\ callbackResult = "KeyError")

\* C5: with the initial control values the filtered frame is the whole table,
\* rows without a Sleep Duration included.
C5_InitialControlsKeepEveryRow ==
  (Responded /\ IsInitial(controls)) => filtered.rows = df.rows

\* C6: the filtered frame is a subsequence of df: each row is the row of df
\* with that Sample ID, unchanged, and the Sample IDs increase strictly.
C6_FilteredIsSubsequence ==
  /\ \A j \in 1..Len(filtered.rows) :
       /\ filtered.rows[j].id \in 1..Len(df.rows)
       /\ filtered.rows[j] = df.rows[filtered.rows[j].id]
  /\ \A j \in 1..Len(filtered.rows) : \A k \in 1..Len(filtered.rows) :
       j < k => filtered.rows[j].id < filtered.rows[k].id

\* An active stress selection that keeps both rows of a two-row table.
C6_Witness ==
  /\ callbackResult = "ok"
  /\ Selected(controls.stress)
  /\ Len(filtered.rows) = 2

IsScenario ==
  /\ df.rows = read_csv([exists |-> TRUE, header |-> RequiredColumns,
                         rows |-> ScenarioRows]).rows
  /\ controls.sleep = <<Float(65), Float(80)>>
  /\ ~Selected(controls.stress)
  /\ ~Selected(controls.activity)

\* m, a formatted mean, is within 0.05 of the arithmetic mean of series s.
IsMeanTo1Decimal(m, s) ==
  /\ m.text = "fixed"
  /\ 10 * Len(s) * m.tenths - 10 * SumTenths(s) <= 5 * Len(s)
  /\ 10 * SumTenths(s) - 10 * Len(s) * m.tenths <= 5 * Len(s)

\* C7: the count is the number of filtered rows, each mean is the mean of the
\* filtered rows to one decimal, and the scenario of durations 6.5 and 8.0
\* with the full range shows count 2 and mean sleep duration 7.3.
C7_CountAndMeans ==
  callbackResult = "ok" =>
    /\ Shown.stats.total_samples = Len(filtered.rows)
    /\ Len(filtered.rows) > 0 =>
         /\ IsMeanTo1Decimal(Shown.stats.avg_sleep, SleepDuration(filtered.rows))
         /\ IsMeanTo1Decimal(Shown.stats.avg_quality, QualityOfSleep(filtered.rows))
         /\ IsMeanTo1Decimal(Shown.stats.avg_stress, StressLevel(filtered.rows))
    /\ IsScenario =>
         /\ Shown.stats.total_samples = 2
         /\ Shown.stats.avg_sleep.tenths = 73

\* C8: once loaded, df has the file's rows with the file's values, numbered
\* 1..N in file order, and the stripped header plus 'Sample ID', whatever the
\* threads running update_dashboard do.
C8_DatasetNeverMutated ==
  pc = "serving" =>
    /\ Len(df.rows) = Len(file.rows)
    /\ df.cols = {strip(h) : h \in file.header} \cup {"Sample ID"}
    /\ \A i \in 1..Len(df.rows) :
         /\ df.rows[i].id = i
         /\ df.rows[i].dur = file.rows[i].dur
         /\ df.rows[i].quality = file.rows[i].quality
         /\ df.rows[i].stress = file.rows[i].stress
         /\ df.rows[i].activity = file.rows[i].activity

\* Two invocations overlap, each holding a frame narrower than df, after an
\* earlier invocation has returned.
C8_Witness ==
  /\ locals["t1"] # << >>
  /\ locals["t2"] # << >>
  /\ Len(locals["t1"][1].rows) < Len(df.rows)
  /\ Len(locals["t2"][1].rows) < Len(locals["t1"][1].rows)
  /\ callbackResult = "ok"

\* C9: the outputs and the filtered frame of the latest callback are those of
\* update_dashboard applied to the file's table and the latest FilterState
\* alone, and the initial FilterState applied again shows what it showed first.
C9_OutputsDependOnLatestOnly ==
  callbackResult = "ok" =>
    /\ display =
         update_dashboard(read_csv(file), controls.sleep, controls.stress,
                          controls.activity).outputs
    /\ filtered.rows = SelectSeq(read_csv(file).rows, LAMBDA r : Passes(r, controls))
    /\ controls = InitialControls(layout) => display = firstDisplay

\* The initial FilterState is applied again after other FilterStates.
C9_Witness ==
  /\ callbackResult = "ok"
  /\ visited
  /\ controls = InitialControls(layout)
  /\ display = firstDisplay
  /\ Len(filtered.rows) = 2

\* C10: after every callback that returned, the count, the three means and the
\* data of the four figures are all those of the rows of df passing the
\* current FilterState.
C10_AllOutputsFromLatestFilterState ==
  callbackResult = "ok" =>
    LET rows == SelectSeq(df.rows, LAMBDA r : Passes(r, controls))
    IN /\ Shown.stats.total_samples = Len(rows)
       /\ Shown.stats.avg_sleep = format_1f(series_mean(SleepDuration(rows)), "h")
       /\ Shown.stats.avg_quality = format_1f(series_mean(QualityOfSleep(rows)), "/10")
       /\ Shown.stats.avg_stress = format_1f(series_mean(StressLevel(rows)), "/10")
       /\ Shown.figs.fig1.x = SleepDuration(rows)
       /\ Shown.figs.fig2.x = SleepDuration(rows)
       /\ Shown.figs.fig2.y = QualityOfSleep(rows)
       /\ Shown.figs.fig2.color = StressLevel(rows)
       /\ Shown.figs.fig2.size = StressLevel(rows)
       /\ Shown.figs.fig2.hover = ActivityLevel(rows)
       /\ Shown.figs.fig3.x = ActivityLevel(rows)
       /\ Shown.figs.fig3.y = SleepDuration(rows)
       /\ Shown.figs.fig4.x = SleepDuration(rows)
       /\ Shown.figs.fig4.y = QualityOfSleep(rows)

\* All three controls have left their initial values and one row is shown.
C10_Witness ==
  /\ callbackResult = "ok"
  /\ controls.sleep # layout.sleep_value
  /\ Selected(controls.stress)
  /\ Selected(controls.activity)
  /\ Len(filtered.rows) = 1
  /\ Len(df.rows) = 2

====
